---- MODULE Spec2Model ----
(***************************************************************************)
(* A model of gitpro.py: main and the functions it dispatches to, the      *)
(* `count` command (the ignore-file loader, the directory walk that counts *)
(* non-blank lines, the tree renderer) and the repository commands         *)
(* (`gitpro <n>`, `reset`, `list`, `diff <m> <n>` and `search <key>`).     *)
(*                                                                         *)
(* Strings are sequences of one-character strings, so that strip(),        *)
(* startswith(), endswith(), lower(), split() and fnmatch() are computed   *)
(* character by character as the Python code computes them.  A path is the *)
(* sequence of its components (os.path.join / os.path.split act on whole   *)
(* components; no name holds a separator).                                 *)
(***************************************************************************)
EXTENDS Integers, Sequences, FiniteSets, TLC

VARIABLES
    pc,               \* position of the running process
    dirs,             \* the tree: its directories below the root, as paths
    files,            \* the tree: its files, as <<directory path, name>>
    content,          \* the tree: each file's lines
    gitignore,        \* the ignore-file: whether it exists, and its lines
    lineNo,           \* the loader's position in the ignore-file
    exclude_patterns, \* the list the loader builds and the walk reads
    stack,            \* os.walk: directories still to be visited, in order
    root,             \* os.walk: the directory being visited
    pending,          \* names of `files` of the visited directory not yet looped over
    lines_by_file,    \* the dict, in insertion order: <<[path, lines], ...>>
    stdout,           \* what the process printed, line by line
    commits,          \* the repository: the commits of main, the initial one first
    devTip,           \* the repository: how many of them the branch dev holds
    head,             \* the repository: HEAD's branch ("" when detached) and commit
    worktree,         \* the repository: the local changes of the working tree
    argv,             \* sys.argv[1:] of the running process
    arg_n,            \* gitpro: its argument n
    detached,         \* gitpro, search_commit_message: what is_detached_head returned
    commit_hash,      \* gitpro: the hash it looked up
    arg_m,            \* git_diff: its argument m (arg_n holds n)
    m_commit_hash,    \* git_diff: the hash it looked up for m
    n_commit_hash,    \* git_diff: the hash it looked up for n
    cmds,             \* the git commands the running process has issued, in order
    exit,             \* exit status of the last process (-1 while it runs)
    runs              \* processes started so far

treeVars == <<dirs, files, content, gitignore>>
countVars == <<lineNo, exclude_patterns, stack, root, pending, lines_by_file>>
repoVars == <<commits, devTip, worktree>>
diffVars == <<arg_m, m_commit_hash, n_commit_hash>>
procVars == <<argv, arg_n, detached, commit_hash, diffVars, cmds, exit, runs>>
gitVars == <<repoVars, head, procVars>>
vars == <<pc, treeVars, countVars, stdout, gitVars>>

-----------------------------------------------------------------------------
(* Bounds of the model *)

\* most files in a tree
MaxFiles == 3
\* most lines in a file whose lines are enumerated
MaxLines == 2
\* most lines in an ignore-file
MaxIgnoreLines == 2
\* most commits on the main branch
MaxCommits == 3
\* most processes run one after the other in a repository
MaxRuns == 2

-----------------------------------------------------------------------------
(* Strings *)

Range(s) == {s[i] : i \in 1..Len(s)}

\* The alphabet is ASCII.  The control characters that have no escape in a
\* string literal are written as the character itself.
\* '\x0b'
VT == ""
\* '\x1c'
FS == ""
\* '\x1d'
GS == ""
\* '\x1e'
RS == ""
\* '\x1f'
US == ""

\* the characters from ' ' to '~' in code-point order, but for the grave
\* accent (code 96), which no string literal can hold
Printable ==
    <<
       " ", "!", "\"", "#", "$", "%", "&", "'", "(", ")", "*", "+",
       ",", "-", ".", "/", "0", "1", "2", "3", "4", "5", "6", "7",
       "8", "9", ":", ";", "<", "=", ">", "?", "@", "A", "B", "C",
       "D", "E", "F", "G", "H", "I", "J", "K", "L", "M", "N", "O",
       "P", "Q", "R", "S", "T", "U", "V", "W", "X", "Y", "Z", "[",
       "\\", "]", "^", "_", "a", "b", "c", "d", "e", "f", "g", "h",
       "i", "j", "k", "l", "m", "n", "o", "p", "q", "r", "s", "t",
       "u", "v", "w", "x", "y", "z", "{", "|", "}", "~"
    >>

\* ord(c)
Ord(c) ==
    IF c = "\t" THEN 9
    ELSE IF c = "\n" THEN 10
    ELSE IF c = VT THEN 11
    ELSE IF c = "\f" THEN 12
    ELSE IF c = "\r" THEN 13
    ELSE IF c = FS THEN 28
    ELSE IF c = GS THEN 29
    ELSE IF c = RS THEN 30
    ELSE IF c = US THEN 31
    ELSE LET i == CHOOSE k \in 1..Len(Printable) : Printable[k] = c
         IN  IF i <= 64 THEN 31 + i ELSE 32 + i

\* str.strip() with no argument removes the characters c with c.isspace();
\* these are the ASCII ones
Whitespace == {" ", "\t", "\n", "\r", "\f", VT, FS, GS, RS, US}

RECURSIVE LStrip(_, _)
LStrip(s, chars) ==
    IF s # <<>> /\ Head(s) \in chars THEN LStrip(Tail(s), chars) ELSE s

RECURSIVE RStrip(_, _)
RStrip(s, chars) ==
    IF s # <<>> /\ s[Len(s)] \in chars
    THEN RStrip(SubSeq(s, 1, Len(s) - 1), chars) ELSE s

\* str.strip(chars)
Strip(s, chars) == RStrip(LStrip(s, chars), chars)

\* str.startswith(prefix)
StartsWith(s, prefix) ==
    Len(s) >= Len(prefix) /\ SubSeq(s, 1, Len(prefix)) = prefix

\* str.endswith(suffix)
EndsWith(s, suffix) ==
    Len(s) >= Len(suffix) /\ SubSeq(s, Len(s) - Len(suffix) + 1, Len(s)) = suffix

\* s.find(c, k, last + 1), counted from 1; 0 when there is none
IndexFrom(s, c, k, last) ==
    IF \E i \in k..last : s[i] = c
    THEN CHOOSE i \in k..last : s[i] = c /\ \A h \in k..(i - 1) : s[h] # c
    ELSE 0

\* fnmatch.translate at `[`: where the class that opens before p closes (the
\* first `]` after an optional `!` and an optional leading `]`); 0 when it
\* never closes, and the `[` is then an ordinary character
ClassClose(p) ==
    LET j0 == IF p # <<>> /\ p[1] = "!" THEN 2 ELSE 1
        j1 == IF j0 <= Len(p) /\ p[j0] = "]" THEN j0 + 1 ELSE j0
    IN  IndexFrom(p, "]", j1, Len(p))

\* fnmatch.translate: the class body cut at the hyphens that make ranges.  A
\* hyphen makes a range when it is not the first character of the body (nor
\* the one after a leading `!`) and does not follow a range; a body that
\* ends in such a hyphen keeps it as a character
RECURSIVE ChunksFrom(_, _, _, _)
ChunksFrom(stuff, chunks, i, k) ==
    LET h == IndexFrom(stuff, "-", k, Len(stuff))
        chunk == SubSeq(stuff, i, Len(stuff))
    IN  IF h # 0
        THEN ChunksFrom(stuff, Append(chunks, SubSeq(stuff, i, h - 1)), h + 1, h + 3)
        ELSE IF chunk # <<>> THEN Append(chunks, chunk)
        ELSE [chunks EXCEPT ![Len(chunks)] = Append(@, "-")]

\* fnmatch.translate: "Remove empty ranges", from the last chunk to the second
RECURSIVE RemoveEmptyRanges(_, _)
RemoveEmptyRanges(chunks, k) ==
    IF k < 2 THEN chunks
    ELSE IF Ord(chunks[k - 1][Len(chunks[k - 1])]) > Ord(chunks[k][1])
         THEN RemoveEmptyRanges(
                  [i \in 1..(Len(chunks) - 1) |->
                      IF i < k - 1 THEN chunks[i]
                      ELSE IF i = k - 1
                           THEN SubSeq(chunks[k - 1], 1, Len(chunks[k - 1]) - 1)
                                \o Tail(chunks[k])
                      ELSE chunks[i + 1]],
                  k - 1)
    ELSE RemoveEmptyRanges(chunks, k - 1)

\* fnmatch.translate: '-'.join(...) of the chunks, as the items of the regular
\* expression's set: every character of a chunk stands for itself (the ones
\* with a meaning are escaped), the hyphens of the join are range operators
RECURSIVE JoinChunks(_)
JoinChunks(chunks) ==
    IF chunks = <<>> THEN <<>>
    ELSE [i \in 1..Len(Head(chunks)) |-> [op |-> FALSE, ch |-> Head(chunks)[i]]]
         \o (IF Len(chunks) = 1 THEN <<>>
             ELSE <<[op |-> TRUE, ch |-> "-"]>> \o JoinChunks(Tail(chunks)))

\* the regular expression's set: whether c is among the items.  An operator
\* with an item on both sides is a range; elsewhere it is the character `-`
RECURSIVE SetHas(_, _)
SetHas(c, items) ==
    IF items = <<>> THEN FALSE
    ELSE IF Len(items) >= 3 /\ items[2].op
         THEN (Ord(items[1].ch) <= Ord(c) /\ Ord(c) <= Ord(items[3].ch))
              \/ SetHas(c, SubSeq(items, 4, Len(items)))
    ELSE items[1].ch = c \/ SetHas(c, Tail(items))

\* whether the character c is in the class with this body (pat[i:j])
InClass(c, body) ==
    LET cut == ChunksFrom(body, <<>>, 1, IF body[1] = "!" THEN 3 ELSE 2)
        stuff == JoinChunks(RemoveEmptyRanges(cut, Len(cut)))
    IN  IF stuff = <<>> THEN FALSE
        ELSE IF stuff = <<[op |-> FALSE, ch |-> "!"]>> THEN TRUE
        ELSE IF stuff[1].ch = "!" THEN ~SetHas(c, Tail(stuff))
        ELSE SetHas(c, stuff)

\* fnmatch.fnmatch(name, pattern) on a POSIX system (normcase is the identity):
\* the whole name against the pattern, `*` any run of characters, `?` any one
\* character, `[seq]` any character of seq, `[!seq]` any character not in seq
RECURSIVE FnMatch(_, _)
FnMatch(name, pattern) ==
    IF pattern = <<>> THEN name = <<>>
    ELSE IF Head(pattern) = "*"
         THEN FnMatch(name, Tail(pattern))
              \/ (name # <<>> /\ FnMatch(Tail(name), pattern))
    ELSE IF name = <<>> THEN FALSE
    ELSE IF Head(pattern) = "?" THEN FnMatch(Tail(name), Tail(pattern))
    ELSE IF Head(pattern) = "[" /\ ClassClose(Tail(pattern)) # 0
         THEN LET p == Tail(pattern)
                  j == ClassClose(p)
              IN  InClass(Head(name), SubSeq(p, 1, j - 1))
                  /\ FnMatch(Tail(name), SubSeq(p, j + 1, Len(p)))
    ELSE Head(name) = Head(pattern) /\ FnMatch(Tail(name), Tail(pattern))

\* any(fnmatch.fnmatch(name, pattern) for pattern in exclude_patterns)
MatchesAny(name, patterns) ==
    \E i \in 1..Len(patterns) : FnMatch(name, patterns[i])

\* d.startswith('.')
IsHidden(d) == StartsWith(d, <<".">>)

MEDIA_EXTENSIONS ==
    { <<".", "p", "n", "g">>, <<".", "j", "p", "g">>, <<".", "j", "p", "e", "g">>,
      <<".", "g", "i", "f">>, <<".", "s", "v", "g">>, <<".", "m", "p", "4">>,
      <<".", "m", "o", "v">>, <<".", "a", "v", "i">>, <<".", "m", "k", "v">>,
      <<".", "i", "c", "o">> }

\* file.endswith(('.png', '.jpg', ...))
IsMedia(file) == \E ext \in MEDIA_EXTENSIONS : EndsWith(file, ext)

\* a variant that counts every line: sum(1 for line in f)
NonBlankLines_EveryLine(lines) == Len(lines)

\* sum(1 for line in f if line.strip())
RECURSIVE NonBlankLines(_)
NonBlankLines(lines) ==
    IF lines = <<>> THEN 0
    ELSE (IF Strip(Head(lines), Whitespace) # <<>> THEN 1 ELSE 0)
         + NonBlankLines(Tail(lines))

-----------------------------------------------------------------------------
(* Names, trees and inputs of the model *)

DOT == <<".">>
\* repository_directory = "." : the path the walk starts from
TOP == <<DOT>>

D_out == <<"o", "u", "t">>
D_src == <<"s", "r", "c">>
D_vs  == <<".", "v", "s">>
D_git == <<".", "g", "i", "t">>

F_py  == <<"a", ".", "p", "y">>
F_log == <<"b", ".", "l", "o", "g">>
F_png == <<"c", ".", "p", "n", "g">>
F_txt == <<"e", ".", "t", "x", "t">>

L_code  == <<"x", "\n">>
L_blank == <<" ", "\t", "\n">>
L_empty == <<"\n">>
L_pad   == <<" ", "x", " ", "\n">>
L_feed  == <<"\f", VT, US, "\n">>

FileNames == {F_py, F_log, F_png, F_txt}

\* the ignore-file's name
F_gitignore == <<".", "g", "i", "t", "i", "g", "n", "o", "r", "e">>

I_log     == <<"*", ".", "l", "o", "g", "\n">>
I_comment == <<"#", " ", "c", "\n">>
I_blank   == <<" ", "\n">>
I_out     == <<"/", "o", "u", "t", "/", "\n">>
I_indent  == <<" ", "#", "x", "\n">>
I_padded  == <<"\t", "a", ".", "p", "y", " ", "\n">>
I_slash   == <<"/", "\n">>
I_feed    == <<"\f", "#", " ", "c", "\n">>
I_class   == <<"[", "O", "o", "]", "u", "t", "/", "\n">>

\* the lines an ignore-file is made of
IgnoreLines ==
    {I_log, I_comment, I_blank, I_out, I_indent, I_padded, I_slash, I_feed, I_class}

\* the lines a file of each name holds in the trees of Init
PoolContent(name) ==
    IF name = F_py THEN <<L_code, L_blank, L_pad, L_feed>>
    ELSE IF name = F_log THEN <<L_code>>
    ELSE IF name = F_png THEN <<L_code, L_code>>
    ELSE <<>>

\* the directories of a tree: below TOP, closed under parent
TreeShapes ==
    { {},
      {TOP \o <<D_vs>>, TOP \o <<D_src>>},
      {TOP \o <<D_out>>, TOP \o <<D_out, D_src>>},
      {TOP \o <<D_src>>, TOP \o <<D_src, D_vs>>},
      {TOP \o <<D_vs>>, TOP \o <<D_vs, D_src>>},
      {TOP \o <<D_src>>, TOP \o <<D_out>>} }

P_log  == <<"*", ".", "l", "o", "g">>
P_out  == D_out
P_s    == <<"s", "*">>
P_qpy  == <<"?", ".", "p", "y">>
P_ab   == <<"[", "a", "b", "]", ".", "p", "y">>
P_notb == <<"[", "!", "b", "]", ".", "*">>
P_rng  == <<"[", "n", "-", "p", "]", "u", "t">>

\* the exclusion-pattern lists count_lines_of_code is called with
PatternLists ==
    { <<>>, <<P_log>>, <<P_out>>, <<P_s, P_qpy>>, <<P_ab>>, <<P_notb, P_rng>> }

\* all sequences over S of length at most n
RECURSIVE SeqsUpTo(_, _)
SeqsUpTo(S, n) ==
    IF n = 0 THEN {<<>>}
    ELSE LET shorter == SeqsUpTo(S, n - 1)
         IN  shorter \cup {Append(s, x) : s \in shorter, x \in S}

FileLines == {L_code, L_blank, L_empty, L_pad, L_feed}

-----------------------------------------------------------------------------
(* The dict lines_by_file: insertion-ordered, one entry per key *)

Keys(d) == {d[i].path : i \in 1..Len(d)}

\* a variant keyed by the file's name: lines_by_file[file] = n
DictSet_ByName(d, k, n) ==
    LET name == <<k[Len(k)]>>
    IN  IF name \in Keys(d)
        THEN [i \in 1..Len(d) |-> IF d[i].path = name THEN [path |-> name, lines |-> n] ELSE d[i]]
        ELSE Append(d, [path |-> name, lines |-> n])

\* lines_by_file[file_path] = n
DictSet(d, k, n) ==
    IF k \in Keys(d)
    THEN [i \in 1..Len(d) |-> IF d[i].path = k THEN [path |-> k, lines |-> n] ELSE d[i]]
    ELSE Append(d, [path |-> k, lines |-> n])

\* sum(lines_by_file.values())
RECURSIVE SumValues(_)
SumValues(d) == IF d = <<>> THEN 0 ELSE Head(d).lines + SumValues(Tail(d))

-----------------------------------------------------------------------------
(* The tree *)

\* os.path.join(root, name)
Join(path, name) == Append(path, name)

\* os.path.split(path)[0]
DirName(path) == SubSeq(path, 1, Len(path) - 1)
\* os.path.split(path)[1]
BaseName(path) == path[Len(path)]

SubDirsOf(d) == {BaseName(p) : p \in {q \in dirs : DirName(q) = d}}
FilesOf(d) == {x[2] : x \in {y \in files : y[1] = d}}

\* the orders a directory listing can come in
Orderings(S) ==
    {s \in [1..Cardinality(S) -> S] : \A i, j \in 1..Cardinality(S) : s[i] = s[j] => i = j}

\* a variant that rebinds `dirs` instead of assigning to dirs[:], which
\* leaves the list os.walk descends into as it was
PruneExcluded_Rebind(ds, patterns) == ds

\* line 302: directories matching no exclusion pattern
PruneExcluded(ds, patterns) == SelectSeq(ds, LAMBDA d : ~MatchesAny(d, patterns))
\* line 304: directories not starting with '.'
PruneHidden(ds) == SelectSeq(ds, LAMBDA d : ~IsHidden(d))

-----------------------------------------------------------------------------
(* read_exclude_patterns_from_gitignore *)

\* a variant that leaves out line 79, the strip('/')
AddPattern_KeepSlash(patterns, raw) ==
    LET line == Strip(raw, Whitespace)
    IN  IF line # <<>> /\ ~StartsWith(line, <<"#">>)
        THEN Append(patterns, line)
        ELSE patterns

\* lines 76-80, for one line of the file: the patterns with the line's added
AddPattern(patterns, raw) ==
    LET line == Strip(raw, Whitespace)
    IN  IF line # <<>> /\ ~StartsWith(line, <<"#">>)
        THEN Append(patterns, Strip(line, {"/"}))
        ELSE patterns

\* one iteration of `for line in f`
ReadIgnoreLine ==
    /\ pc = "load"
    /\ gitignore.exists
    /\ lineNo <= Len(gitignore.lines)
    /\ exclude_patterns' = AddPattern(exclude_patterns, gitignore.lines[lineNo])
    /\ lineNo' = lineNo + 1
    /\ UNCHANGED <<gitVars, pc, treeVars, stack, root, pending, lines_by_file, stdout>>

\* a variant that appends a pattern for the .git directory before it returns
LoaderReturn_WithBuiltIn ==
    /\ pc = "load"
    /\ gitignore.exists => lineNo > Len(gitignore.lines)
    /\ pc' = "walk"
    /\ stack' = <<TOP>>
    /\ exclude_patterns' = Append(exclude_patterns, <<".", "g", "i", "t">>)
    /\ UNCHANGED <<gitVars, treeVars, lineNo, root, pending, lines_by_file, stdout>>

\* `return exclude_patterns`, and main's call of count_lines_of_code(".", ...)
LoaderReturn ==
    /\ pc = "load"
    /\ gitignore.exists => lineNo > Len(gitignore.lines)
    /\ pc' = "walk"
    /\ stack' = <<TOP>>
    /\ UNCHANGED <<gitVars, treeVars, lineNo, exclude_patterns, root, pending, lines_by_file, stdout>>

-----------------------------------------------------------------------------
(* count_lines_of_code *)

\* lines 300-304: os.walk yields the next directory, top-down, with its listing;
\* the loop body prunes `dirs` in place, and os.walk descends into what is left
\* before it goes on to the directories that were already waiting.
WalkDir ==
    /\ pc = "walk"
    /\ stack # <<>>
    /\ \E listing \in Orderings(SubDirsOf(Head(stack))) :
         LET kept == PruneHidden(PruneExcluded(listing, exclude_patterns))
         IN  stack' = [i \in 1..Len(kept) |-> Join(Head(stack), kept[i])] \o Tail(stack)
    /\ root' = Head(stack)
    /\ pending' = FilesOf(Head(stack))
    /\ pc' = IF pending' = {} THEN "walk" ELSE "files"
    /\ UNCHANGED <<gitVars, treeVars, lineNo, exclude_patterns, lines_by_file, stdout>>

\* the loop `for file in files` moves on
NextFile(file) ==
    /\ pending' = pending \ {file}
    /\ pc' = IF pending' = {} THEN "walk" ELSE "files"
    /\ UNCHANGED <<gitVars, treeVars, lineNo, exclude_patterns, stack, root, stdout>>

\* line 309 is false: the file matches an exclusion pattern
SkipFile(file) ==
    /\ MatchesAny(file, exclude_patterns)
    /\ UNCHANGED lines_by_file
    /\ NextFile(file)

\* lines 310-312
RecordMedia(file) ==
    /\ ~MatchesAny(file, exclude_patterns)
    /\ IsMedia(file)
    /\ lines_by_file' = DictSet(lines_by_file, Join(root, file), 1)
    /\ NextFile(file)

\* lines 314-315
CountLines(file) ==
    /\ ~MatchesAny(file, exclude_patterns)
    /\ ~IsMedia(file)
    /\ lines_by_file' = DictSet(lines_by_file, Join(root, file),
                                NonBlankLines(content[<<root, file>>]))
    /\ NextFile(file)

\* line 314: open() raises (the file cannot be read); nothing catches it
OpenFails(file) ==
    /\ ~MatchesAny(file, exclude_patterns)
    /\ ~IsMedia(file)
    /\ pc' = "raised"
    /\ exit' = 1
    /\ UNCHANGED <<repoVars, head, argv, arg_n, detached, commit_hash, diffVars, cmds, runs,
                   treeVars, countVars, stdout>>

\* one iteration of `for file in files`, in the order the listing has them
ProcessFile ==
    /\ pc = "files"
    /\ \E file \in pending :
         \/ SkipFile(file)
         \/ RecordMedia(file)
         \/ CountLines(file)
         \/ OpenFails(file)

\* line 316
ReturnMapping ==
    /\ pc = "walk"
    /\ stack = <<>>
    /\ pc' = "returned"
    /\ UNCHANGED <<gitVars, treeVars, countVars, stdout>>

-----------------------------------------------------------------------------
(* print_lines_by_file *)

\* prev_path = None
None == <<>>

\* a variant that never stores prev_path, so that every file gets a header
RECURSIVE RenderFrom_NoPrev(_, _, _)
RenderFrom_NoPrev(d, i, prev_path) ==
    IF i > Len(d) THEN <<>>
    ELSE <<[kind |-> "dir", path |-> SubSeq(d[i].path, 1, Len(d[i].path) - 1)],
           [kind |-> "file", indent |-> Len(d[i].path) - 2,
            name |-> d[i].path[Len(d[i].path)], lines |-> d[i].lines]>>
         \o RenderFrom_NoPrev(d, i + 1, prev_path)

\* lines 103-120, from item i on
RECURSIVE RenderFrom(_, _, _)
RenderFrom(d, i, prev_path) ==
    IF i > Len(d) THEN <<>>
    ELSE LET directories  == DirName(d[i].path)
             filename     == BaseName(d[i].path)
             current_path == directories
             header == IF current_path # prev_path
                       THEN <<[kind |-> "dir", path |-> current_path]>>
                       ELSE <<>>
         IN  header
             \o <<[kind |-> "file", indent |-> Len(directories) - 1,
                   name |-> filename, lines |-> d[i].lines]>>
             \o RenderFrom(d, i + 1, current_path)

\* lines 101-124
Render(d) == RenderFrom(d, 1, None) \o <<[kind |-> "total", lines |-> SumValues(d)]>>

PrintLinesByFile ==
    /\ pc = "returned"
    /\ stdout' = Render(lines_by_file)
    /\ pc' = "done"
    /\ exit' = 0
    /\ UNCHANGED <<repoVars, head, argv, arg_n, detached, commit_hash, diffVars, cmds, runs,
                   treeVars, countVars>>

-----------------------------------------------------------------------------
(* Specifications *)

NoIgnoreFile == [exists |-> FALSE, lines |-> <<>>]

\* the subsets of S of at most n elements
RECURSIVE SubsetsUpTo(_, _)
SubsetsUpTo(S, n) ==
    IF n = 0 THEN {{}}
    ELSE LET smaller == SubsetsUpTo(S, n - 1)
         IN  smaller \cup {t \cup {x} : t \in smaller, x \in S}

\* a tree of each shape, with at most MaxFiles files in its directories
TreesOver(shapes, names) ==
    UNION { {[dirs |-> ds, files |-> fs] :
                fs \in SubsetsUpTo((ds \cup {TOP}) \X names, MaxFiles)} : ds \in shapes }

\* no repository command runs
InitNoGit ==
    /\ commits = <<>>
    /\ devTip = 0
    /\ head = [branch |-> "main", at |-> 0]
    /\ worktree = "clean"
    /\ arg_n = 0
    /\ detached = FALSE
    /\ commit_hash = <<>>
    /\ arg_m = 0
    /\ m_commit_hash = <<>>
    /\ n_commit_hash = <<>>
    /\ cmds = <<>>
    /\ exit = -1

\* the process is in count_lines_of_code
InCount ==
    /\ argv = <<<<"c", "o", "u", "n", "t">>>>
    /\ runs = 1
    /\ pc = "walk"

InitWalk ==
    /\ InitNoGit
    /\ stack = <<TOP>>
    /\ root = TOP
    /\ pending = {}
    /\ lines_by_file = <<>>
    /\ stdout = <<>>
    /\ lineNo = 1

\* count_lines_of_code(T, P) for the trees and pattern lists of the model
Init ==
    /\ \E t \in TreesOver(TreeShapes, FileNames) :
         /\ dirs = t.dirs
         /\ files = t.files
    /\ content = [x \in files |-> PoolContent(x[2])]
    /\ gitignore = NoIgnoreFile
    /\ exclude_patterns \in PatternLists
    /\ InCount
    /\ InitWalk

Walk == WalkDir \/ ProcessFile \/ ReturnMapping \/ PrintLinesByFile

Next == Walk

Spec == Init /\ [][Next]_vars

\* one file, of any lines
InitLines ==
    /\ dirs = {}
    /\ \E name \in FileNames : files = {<<TOP, name>>}
    /\ content \in [files -> SeqsUpTo(FileLines, MaxLines)]
    /\ gitignore = NoIgnoreFile
    /\ exclude_patterns \in {<<>>, <<P_log>>}
    /\ InCount
    /\ InitWalk

SpecLines == InitLines /\ [][Next]_vars

-----------------------------------------------------------------------------
(* Properties of count_lines_of_code and print_lines_by_file *)

\* the characters that count as whitespace
Spaces == {" ", "\t", "\n", "\r", "\f", VT, FS, GS, RS, US}

\* count_lines_of_code has returned its mapping
Returned == pc \in {"returned", "done"}

\* the names of the directories a file lies in, below the root
Ancestors(x) == {x[1][k] : k \in 2..Len(x[1])}

\* how often a path is a key of the mapping
TimesKey(path) == Cardinality({i \in 1..Len(lines_by_file) : lines_by_file[i].path = path})

Unmatched(x) ==
    /\ ~MatchesAny(x[2], exclude_patterns)
    /\ \A d \in Ancestors(x) : ~MatchesAny(d, exclude_patterns)

\* C1 as stated: in the returned mapping every file whose name and whose
\* ancestor directory names match no exclusion pattern is a key exactly once,
\* directories whose names begin with a dot included.
C1_EveryUnmatchedFileOnce ==
    Returned => \A x \in files : Unmatched(x) => TimesKey(Join(x[1], x[2])) = 1

\* C1 as amended: in the returned mapping every file whose name and whose
\* ancestor directory names match no exclusion pattern, and none of whose
\* ancestor directory names begins with a dot, is a key exactly once.
C1_EveryUnmatchedVisibleFileOnce ==
    Returned =>
        \A x \in files :
            (Unmatched(x) /\ \A d \in Ancestors(x) : d[1] # ".")
                => TimesKey(Join(x[1], x[2])) = 1

\* a returned mapping that holds a file of a subdirectory, of a tree that also
\* has an unmatched file below a directory whose name begins with a dot
C1_Witness ==
    /\ Returned
    /\ exclude_patterns # <<>>
    /\ \E x \in files :
         /\ Len(x[1]) >= 2 /\ Unmatched(x) /\ \A d \in Ancestors(x) : d[1] # "."
         /\ TimesKey(Join(x[1], x[2])) = 1
    /\ \E y \in files :
         /\ Unmatched(y) /\ \E d \in Ancestors(y) : d[1] = "."
         /\ TimesKey(Join(y[1], y[2])) = 0

\* the lines of a file that hold a character other than whitespace
CodeLinesOf(lines) ==
    {k \in 1..Len(lines) : \E j \in 1..Len(lines[k]) : lines[k][j] \notin Spaces}

FileOfKey(path) == <<SubSeq(path, 1, Len(path) - 1), path[Len(path)]>>

\* C2 as stated: every recorded count, whatever the file's name or extension,
\* is the number of its lines that are non-empty after stripping whitespace.
C2_CountIsNonBlankLines ==
    \A i \in 1..Len(lines_by_file) :
        lines_by_file[i].lines
            = Cardinality(CodeLinesOf(content[FileOfKey(lines_by_file[i].path)]))

HasMediaExtension(name) ==
    \E n \in 4..5 :
        /\ Len(name) >= n
        /\ SubSeq(name, Len(name) - n + 1, Len(name)) \in MEDIA_EXTENSIONS

\* C2 as amended: a recorded file whose name ends with one of the media
\* extensions has the count 1, and every other recorded file the number of its
\* lines that are non-empty after stripping whitespace (0 for an empty file and
\* for a file of blank lines).
C2_CountIsNonBlankLinesUnlessMedia ==
    \A i \in 1..Len(lines_by_file) :
        LET x == FileOfKey(lines_by_file[i].path)
        IN  lines_by_file[i].lines
                = IF HasMediaExtension(x[2]) THEN 1
                  ELSE Cardinality(CodeLinesOf(content[x]))

\* a recorded file with a blank line and a line of code
C2_Witness ==
    /\ Returned
    /\ \E i \in 1..Len(lines_by_file) :
         LET lines == content[FileOfKey(lines_by_file[i].path)]
         IN  /\ lines_by_file[i].lines = 1
             /\ Len(lines) >= 2
             /\ \E k \in 1..Len(lines) : lines[k] = L_blank
             /\ ~HasMediaExtension(lines_by_file[i].path[Len(lines_by_file[i].path)])

\* C3: no key of the mapping lies, at any depth, below a directory whose name
\* matches an exclusion pattern.
C3_ExcludedDirectoryPruned ==
    \A i \in 1..Len(lines_by_file) :
        \A d \in Ancestors(FileOfKey(lines_by_file[i].path)) :
            ~MatchesAny(d, exclude_patterns)

\* a returned, non-empty mapping of a tree with an unmatched file in an
\* unmatched directory below a matched directory
C3_Witness ==
    /\ Returned
    /\ lines_by_file # <<>>
    /\ \E x \in files :
         /\ Len(x[1]) = 3
         /\ MatchesAny(x[1][2], exclude_patterns)
         /\ ~MatchesAny(x[1][3], exclude_patterns)
         /\ ~MatchesAny(x[2], exclude_patterns)
         /\ TimesKey(Join(x[1], x[2])) = 0

\* C5: the traversal never aborts: no error of a file that cannot be opened
\* reaches the caller.
C5_NeverAborts == pc # "raised"

IsProperPrefix(p, q) == Len(p) < Len(q) /\ SubSeq(q, 1, Len(p)) = p

KeyDir(i) == SubSeq(lines_by_file[i].path, 1, Len(lines_by_file[i].path) - 1)

Headers == {i \in 1..Len(stdout) : stdout[i].kind = "dir"}

\* C7: in the returned mapping the files directly in a directory precede the
\* files of its subdirectories and are contiguous, and the renderer prints each
\* directory of the mapping as a header exactly once.
C7_DirectoriesBeforeDescendants ==
    /\ Returned =>
         /\ \A i, j \in 1..Len(lines_by_file) :
                IsProperPrefix(KeyDir(i), KeyDir(j)) => i < j
         /\ \A i, j, k \in 1..Len(lines_by_file) :
                (i < j /\ j < k /\ KeyDir(i) = KeyDir(k)) => KeyDir(j) = KeyDir(i)
    /\ pc = "done" =>
         \A i \in 1..Len(lines_by_file) :
             Cardinality({h \in Headers : stdout[h].path = KeyDir(i)}) = 1

\* a rendered mapping with two files in one directory and a file in a
\* directory below it
C7_Witness ==
    /\ pc = "done"
    /\ Cardinality(Headers) = 2
    /\ \E i, j, k \in 1..Len(lines_by_file) :
         /\ i # j /\ KeyDir(i) = KeyDir(j)
         /\ IsProperPrefix(KeyDir(i), KeyDir(k))

-----------------------------------------------------------------------------
(* main, option `count`: the loader, then the walk, then the renderer *)

\* the trees the command is run in, the ignore-file apart
MainTrees ==
    { [dirs  |-> {},
       files |-> {<<TOP, F_log>>, <<TOP, F_py>>}],
      [dirs  |-> {TOP \o <<D_git>>, TOP \o <<D_out>>},
       files |-> {<<TOP, F_log>>, <<TOP, F_png>>, <<TOP \o <<D_git>>, F_txt>>,
                  <<TOP \o <<D_out>>, F_py>>}] }

IgnoreFiles ==
    {NoIgnoreFile}
        \cup {[exists |-> TRUE, lines |-> l] : l \in SeqsUpTo(IgnoreLines, MaxIgnoreLines)}

\* an ignore-file that exists is a file of the working directory, which is the
\* directory the walk starts from
InitMain ==
    /\ gitignore \in IgnoreFiles
    /\ \E t \in MainTrees :
         /\ dirs = t.dirs
         /\ files = t.files \cup (IF gitignore.exists THEN {<<TOP, F_gitignore>>} ELSE {})
    /\ content = [x \in files |-> IF x[2] = F_gitignore THEN gitignore.lines
                                  ELSE PoolContent(x[2])]
    /\ exclude_patterns = <<>>
    /\ pc = "idle"
    /\ InitWalk
    /\ argv = <<>>
    /\ runs = 0

-----------------------------------------------------------------------------
(* Properties of read_exclude_patterns_from_gitignore *)

Loaded == pc \notin {"idle", "load"}

\* a line without the characters of `chars` at its two ends
Trimmed(s, chars) ==
    LET inner == {k \in 1..Len(s) : s[k] \notin chars}
    IN  IF inner = {} THEN <<>>
        ELSE SubSeq(s, CHOOSE k \in inner : \A m \in inner : k <= m,
                       CHOOSE k \in inner : \A m \in inner : k >= m)

\* the lines of the ignore-file that are neither blank nor comments
PatternLines ==
    {k \in 1..Len(gitignore.lines) :
        LET t == Trimmed(gitignore.lines[k], Spaces)
        IN  t # <<>> /\ t[1] # "#"}

\* the pattern of such a line
PatternOf(k) == Trimmed(Trimmed(gitignore.lines[k], Spaces), {"/"})

\* C4 as stated: the loader's result always holds the built-in pattern for the
\* version-control metadata directory.
C4_BuiltInPatternIncluded ==
    Loaded => \E i \in 1..Len(exclude_patterns) : exclude_patterns[i] = D_git

HiddenAncestor(x) == \E d \in Ancestors(x) : d[1] = "."

\* C4 as amended: the loader's result holds one pattern for each pattern line
\* of the ignore-file and nothing else; with no ignore-file it raises nothing
\* and returns the empty list, and a count that returns records exactly the
\* files that lie below no directory whose name begins with a dot, which leaves
\* out the version-control metadata directory.
C4_NoBuiltInPattern ==
    /\ Loaded => Len(exclude_patterns) = Cardinality(PatternLines)
    /\ (Loaded /\ ~gitignore.exists) => exclude_patterns = <<>>
    /\ (Returned /\ ~gitignore.exists) =>
           Keys(lines_by_file) = {Join(x[1], x[2]) : x \in {y \in files : ~HiddenAncestor(y)}}

\* a count that returned, with no ignore-file, in a tree with a file in .git
C4_Witness ==
    /\ Returned
    /\ ~gitignore.exists
    /\ \E x \in files : D_git \in Ancestors(x)
    /\ lines_by_file # <<>>

\* C6: the loaded patterns are, in file order, the lines that are non-empty
\* after trimming whitespace and do not start with '#', each without its leading
\* and trailing '/'; a file of the working directory is then counted if and only
\* if none of these patterns matches its name.
C6_PatternsAreTheTrimmedLines ==
    /\ Loaded =>
         /\ Len(exclude_patterns) = Cardinality(PatternLines)
         /\ \A k \in PatternLines :
                exclude_patterns[Cardinality({m \in PatternLines : m <= k})] = PatternOf(k)
    /\ Returned =>
         \A x \in files :
             x[1] = TOP =>
                 (Join(TOP, x[2]) \in Keys(lines_by_file)
                     <=> ~\E k \in PatternLines : FnMatch(x[2], PatternOf(k)))

\* the count returned with b.log left out and a.py counted, under an
\* ignore-file of `*.log` and a comment
C6_Witness ==
    /\ Returned
    /\ gitignore.exists
    /\ Range(gitignore.lines) = {I_log, I_comment}
    /\ exclude_patterns = <<P_log>>
    /\ Join(TOP, F_log) \notin Keys(lines_by_file)
    /\ \E i \in 1..Len(lines_by_file) :
         lines_by_file[i] = [path |-> Join(TOP, F_py), lines |-> 2]

-----------------------------------------------------------------------------
(* The repository commands: strings and inputs *)

MAIN_BRANCH_NAME == "main"

Digits == <<"0", "1", "2", "3", "4", "5", "6", "7", "8", "9">>
IsDigit(c) == \E i \in 1..Len(Digits) : Digits[i] = c
DigitValue(c) == (CHOOSE i \in 1..Len(Digits) : Digits[i] = c) - 1

RECURSIVE DigitsValue(_)
DigitsValue(s) ==
    IF s = <<>> THEN 0
    ELSE DigitsValue(SubSeq(s, 1, Len(s) - 1)) * Len(Digits) + DigitValue(s[Len(s)])

\* int() removes the whitespace around the numeral: the characters strip()
\* removes, but for the four separators '\x1c' to '\x1f'
IntWhitespace == Whitespace \ {FS, GS, RS, US}

\* int(option): surrounding whitespace, an optional sign, then decimal digits
\* with single underscores allowed between them; anything else is a ValueError
ParseInt(s) ==
    LET t      == Strip(s, IntWhitespace)
        signed == t # <<>> /\ Head(t) \in {"-", "+"}
        body   == IF signed THEN Tail(t) ELSE t
        ok     == /\ body # <<>>
                  /\ IsDigit(body[1])
                  /\ IsDigit(body[Len(body)])
                  /\ \A i \in 1..Len(body) :
                         \/ IsDigit(body[i])
                         \/ body[i] = "_" /\ body[i - 1] # "_"
        digits == SelectSeq(body, IsDigit)
    IN  [ok |-> ok,
         value |-> IF ~ok THEN 0
                   ELSE IF signed /\ Head(t) = "-" THEN 0 - DigitsValue(digits)
                   ELSE DigitsValue(digits)]

Upper == <<"A", "B", "C", "D", "E", "F", "G", "H", "I", "J", "K", "L", "M",
           "N", "O", "P", "Q", "R", "S", "T", "U", "V", "W", "X", "Y", "Z">>
Lower == <<"a", "b", "c", "d", "e", "f", "g", "h", "i", "j", "k", "l", "m",
           "n", "o", "p", "q", "r", "s", "t", "u", "v", "w", "x", "y", "z">>

\* str.lower()
ToLower(s) ==
    [i \in 1..Len(s) |->
        IF \E k \in 1..Len(Upper) : Upper[k] = s[i]
        THEN Lower[CHOOSE k \in 1..Len(Upper) : Upper[k] = s[i]]
        ELSE s[i]]

\* sub in s
Contains(s, sub) ==
    \E i \in 0..(Len(s) - Len(sub)) : SubSeq(s, i + 1, i + Len(sub)) = sub

\* s.split(' ', 1)
SplitOnce(s) ==
    LET spaces == {k \in 1..Len(s) : s[k] = " "}
    IN  IF spaces = {} THEN <<s>>
        ELSE LET k == CHOOSE k \in spaces : \A m \in spaces : k <= m
             IN  <<SubSeq(s, 1, k - 1), SubSeq(s, k + 1, Len(s))>>

\* lst[i] of a Python list: negative indices count from the end, and an index
\* outside the list is an IndexError
PyIndex(lst, i) ==
    IF 0 <= i /\ i < Len(lst) THEN [ok |-> TRUE, value |-> lst[i + 1]]
    ELSE IF i < 0 /\ 0 - i <= Len(lst) THEN [ok |-> TRUE, value |-> lst[Len(lst) + i + 1]]
    ELSE [ok |-> FALSE, value |-> <<>>]

Text(t) == [kind |-> "text", text |-> t]

W_reset  == <<"r", "e", "s", "e", "t">>
W_list   == <<"l", "i", "s", "t">>
W_diff   == <<"d", "i", "f", "f">>
W_search == <<"s", "e", "a", "r", "c", "h">>
W_count  == <<"c", "o", "u", "n", "t">>

M_fix == <<"F", "i", "x", " ", "x">>
M_add == <<"a", "d", "d">>
Messages == {M_fix, M_add}

K_fix == <<"f", "i", "x">>
K_d   == <<"D">>
SearchKeys == {K_fix, K_d}

\* the hash of the k-th commit, and what `git log --oneline` shortens it to
HashOf(k) == <<Digits[k + 1], "a", "f", "e">>
Abbrev(hash) == SubSeq(hash, 1, Len(hash) - 2)

Histories ==
    UNION { {[k \in 1..len |-> [hash |-> HashOf(k), msg |-> m[k]]] : m \in [1..len -> Messages]}
            : len \in 1..MaxCommits }

\* the decimal numeral of a one-digit integer
Numeral(i) == IF i < 0 THEN <<"-", Digits[1 - i]>> ELSE <<Digits[i + 1]>>

\* numerals int() reads with more than a sign and digits, and two it rejects
N_ten     == <<"1", "_", "0">>
N_feed    == <<"\f", "+", "0", "2", "\r">>
N_under   == <<"2", "_">>
N_sep     == <<FS, "1">>

\* The repositories of the model hold one tracked file, a.py, which every
\* commit changes.  The working tree is clean, or a.py has a local change, or
\* there is a file git does not track.
WorkTrees == {"clean", "modified", "untracked"}

\* what `git status --porcelain` prints: nothing in a clean working tree
S_clean     == <<>>
S_modified  == <<" ", "M", " ", "a", ".", "p", "y", "\n">>
S_untracked == <<"?", "?", " ", "b", ".", "t", "x", "t", "\n">>

\* the command lines of the model (sys.argv[1:])
ArgvPool ==
    {<<Numeral(i)>> : i \in (0 - MaxCommits - 1)..(MaxCommits + 1)}
        \cup {<<N_ten>>, <<N_feed>>, <<N_under>>, <<N_sep>>, <<<<"x">>>>}
        \cup {<<W_search, k>> : k \in SearchKeys}
        \cup {<<W_search>>, <<>>, <<W_reset>>, <<W_list>>}
        \cup {<<W_diff, Numeral(m), Numeral(MaxCommits - 1)>> : m \in {0, 1, MaxCommits + 1}}
        \cup {<<W_diff, Numeral(MaxCommits - 1), Numeral(MaxCommits + 1)>>,
              <<W_diff, N_under, Numeral(1)>>, <<W_diff, Numeral(1), <<"x">>>>,
              <<W_diff, Numeral(1)>>, <<W_diff>>}

-----------------------------------------------------------------------------
(* git, as the commands drive it *)

\* `git symbolic-ref --short HEAD` fails
IsDetachedHead == head.branch = ""

TipOf(branch) == IF branch = MAIN_BRANCH_NAME THEN Len(commits) ELSE devTip

\* the history `git log` walks, the initial commit first
History == SubSeq(commits, 1, head.at)

Reverse(s) == [i \in 1..Len(s) |-> s[Len(s) - i + 1]]

\* `git log --pretty=format:%H`, split into lines: the newest commit first
LogHashes == Reverse([i \in 1..Len(History) |-> History[i].hash])

\* `git log --oneline`, split into lines: the newest commit first
LogOneLine == Reverse([i \in 1..Len(History) |-> Abbrev(History[i].hash) \o <<" ">> \o History[i].msg])

\* `git log --pretty=format:%H %s`, split into lines: the newest commit first
LogSubjects == Reverse([i \in 1..Len(History) |-> History[i].hash \o <<" ">> \o History[i].msg])

\* a git command the process runs, with HEAD as the command finds it and the
\* commits the command line names
Cmd(cmd, at, args) == [cmd |-> cmd, head |-> at, args |-> args]

Issue(cmd) == cmds' = Append(cmds, Cmd(cmd, head, <<>>))

\* `git status --porcelain`
StatusOutput ==
    IF worktree = "modified" THEN S_modified
    ELSE IF worktree = "untracked" THEN S_untracked
    ELSE S_clean

\* `git checkout` of the commit k (by a branch or by its hash) succeeds unless
\* it would overwrite a local change: a.py is changed locally and differs
\* between HEAD's commit and the commit k
CheckoutSucceeds(k) == worktree # "modified" \/ k = head.at

\* a line a git command writes to the standard output of the process itself
Git(t) == [kind |-> "git", text |-> t]

\* what a `git checkout` that succeeds writes to the standard output: the
\* files with local changes it carries along
CheckoutOutput == IF worktree = "modified" THEN <<Git("M\ta.py")>> ELSE <<>>

\* what `git reset --hard` writes to the standard output:
\* "HEAD is now at <abbreviated hash> <subject>"
ResetOutput ==
    <<[kind |-> "head-is-now-at", hash |-> Abbrev(commits[head.at].hash),
       message |-> commits[head.at].msg]>>

\* what `git diff --name-only` of two commits writes to the standard output
DiffNamesOutput(a, b) == IF a # b THEN <<Git("a.py")>> ELSE <<>>

\* what `git diff` of two commits writes to the standard output: the patch
DiffOutput(a, b) == IF a # b THEN <<[kind |-> "patch", from |-> a, to |-> b]>> ELSE <<>>

-----------------------------------------------------------------------------
(* main *)

\* the process ends in main: what it printed, and its exit status
Exit(out, status) ==
    /\ stdout' = out
    /\ exit' = status
    /\ pc' = "idle"
    /\ arg_n' = 0

\* main calls the function of the option
Call(function, n) ==
    /\ stdout' = <<>>
    /\ exit' = -1
    /\ pc' = function
    /\ arg_n' = n

\* lines 320-357: a new process starts with the command line a, and main
\* dispatches on sys.argv[1].  An exception that main does not catch (the
\* IndexError of sys.argv[2] or sys.argv[3]) ends the process with status 1 and
\* nothing on its standard output.
Main(a) ==
    /\ pc = "idle"
    /\ runs < MaxRuns
    /\ runs' = runs + 1
    /\ argv' = a
    /\ cmds' = <<>>
    /\ detached' = FALSE
    /\ commit_hash' = <<>>
    /\ m_commit_hash' = <<>>
    /\ n_commit_hash' = <<>>
    /\ arg_m' = IF Len(a) >= 3 /\ a[1] = W_diff /\ ParseInt(a[2]).ok /\ ParseInt(a[3]).ok
                THEN ParseInt(a[2]).value ELSE 0
    /\ lineNo' = 1
    /\ exclude_patterns' = <<>>
    /\ stack' = <<TOP>>
    /\ root' = TOP
    /\ pending' = {}
    /\ lines_by_file' = <<>>
    /\ IF Len(a) < 1
       THEN Exit(<<Text("Usage: gitpro <n:int> | reset | list | diff <m:int> <n:int> | search <search-key:str> | count")>>, 1)
       ELSE IF a[1] = W_reset THEN Call("reset", 0)
       ELSE IF a[1] = W_list THEN Call("list", 0)
       ELSE IF a[1] = W_diff
            THEN IF Len(a) < 2 THEN Exit(<<>>, 1)
                 ELSE IF ~ParseInt(a[2]).ok
                      THEN Exit(<<Text("Invalid number of arguments. Usage: gitpro diff <m:int> <n:int>")>>, 1)
                 ELSE IF Len(a) < 3 THEN Exit(<<>>, 1)
                 ELSE IF ~ParseInt(a[3]).ok
                      THEN Exit(<<Text("Invalid number of arguments. Usage: gitpro diff <m:int> <n:int>")>>, 1)
                 ELSE Call("diff", ParseInt(a[3]).value)
       ELSE IF a[1] = W_search
            THEN IF Len(a) # 2
                 THEN Exit(<<Text("Usage: ./gitpro.py search 'search_key'")>>, 1)
                 ELSE Call("search", 0)
       ELSE IF a[1] = W_count THEN Call("load", 0)
       ELSE IF ParseInt(a[1]).ok
            THEN Call("gitpro", ParseInt(a[1]).value)
            ELSE Exit(<<Text("Invalid argument. Please provide an integer, 'reset', 'list', or 'diff'.")>>, 1)
    /\ UNCHANGED <<treeVars, repoVars, head>>

\* a command line of ArgvPool is run
Invoke == \E a \in ArgvPool : Main(a)

\* `count` is run
InvokeCount == Main(<<W_count>>)

\* main, option `count`, in the trees and with the ignore-files of InitMain
NextMain == InvokeCount \/ ReadIgnoreLine \/ LoaderReturn \/ Walk

SpecMain == InitMain /\ [][NextMain]_vars

-----------------------------------------------------------------------------
(* gitpro_reset *)

\* lines 172-173
ResetStatus ==
    /\ pc = "reset"
    /\ Issue("status")
    /\ LET status_output == StatusOutput
       IN  pc' = IF Strip(status_output, Whitespace) # <<>>
                 THEN "reset_hard" ELSE "reset_checkout_main"
    /\ UNCHANGED <<treeVars, countVars, repoVars, head, argv, arg_n, detached,
                   commit_hash, diffVars, exit, runs, stdout>>

\* line 175: a local change to a tracked file is discarded, an untracked file
\* stays
ResetHard ==
    /\ pc = "reset_hard"
    /\ Issue("reset-hard")
    /\ worktree' = IF worktree = "modified" THEN "clean" ELSE worktree
    /\ stdout' = stdout \o ResetOutput
    /\ pc' = "reset_checkout_main"
    /\ UNCHANGED <<treeVars, countVars, commits, devTip, head, argv, arg_n, detached,
                   commit_hash, diffVars, exit, runs>>

\* line 178, after which the process ends with main's return
ResetCheckoutMain ==
    /\ pc = "reset_checkout_main"
    /\ Issue("checkout-main")
    /\ IF CheckoutSucceeds(TipOf(MAIN_BRANCH_NAME))
       THEN /\ head' = [branch |-> MAIN_BRANCH_NAME, at |-> TipOf(MAIN_BRANCH_NAME)]
            /\ stdout' = stdout \o CheckoutOutput
       ELSE UNCHANGED <<head, stdout>>
    /\ exit' = 0
    /\ pc' = "idle"
    /\ UNCHANGED <<treeVars, countVars, repoVars, argv, arg_n, detached, commit_hash,
                   diffVars, runs>>

-----------------------------------------------------------------------------
(* list_commits *)

\* lines 194-199: the commits of HEAD's history, the newest first, numbered
\* from 1
ListCommits ==
    /\ pc = "list"
    /\ Issue("log-subjects")
    /\ LET commit_list == LogSubjects
       IN  stdout' = stdout \o [i \in 1..Len(commit_list) |->
                                   [kind |-> "item", number |-> i, commit |-> commit_list[i]]]
    /\ exit' = 0
    /\ pc' = "idle"
    /\ UNCHANGED <<treeVars, countVars, repoVars, head, argv, arg_n, detached,
                   commit_hash, diffVars, runs>>

-----------------------------------------------------------------------------
(* git_diff(m, n) *)

\* lines 232-234 (the IndexError of a lookup)
DiffNotFound ==
    /\ stdout' = Append(stdout, Text("Commit not found."))
    /\ exit' = 1
    /\ pc' = "idle"

\* line 221
DiffLookupM ==
    /\ pc = "diff"
    /\ Issue("log-hashes")
    /\ LET found == PyIndex(LogHashes, 0 - arg_m)
       IN  IF found.ok
           THEN /\ m_commit_hash' = found.value
                /\ pc' = "diff_lookup_n"
                /\ UNCHANGED <<stdout, exit>>
           ELSE /\ DiffNotFound
                /\ UNCHANGED m_commit_hash
    /\ UNCHANGED <<treeVars, countVars, repoVars, head, argv, arg_n, detached,
                   commit_hash, arg_m, n_commit_hash, runs>>

\* line 222, and the print of line 225
DiffLookupN ==
    /\ pc = "diff_lookup_n"
    /\ Issue("log-hashes")
    /\ LET found == PyIndex(LogHashes, 0 - arg_n)
       IN  IF found.ok
           THEN /\ n_commit_hash' = found.value
                /\ stdout' = stdout \o <<Text(""), Text("Changes in folder structure:")>>
                /\ pc' = "diff_name_only"
                /\ UNCHANGED exit
           ELSE /\ DiffNotFound
                /\ UNCHANGED n_commit_hash
    /\ UNCHANGED <<treeVars, countVars, repoVars, head, argv, arg_n, detached,
                   commit_hash, arg_m, m_commit_hash, runs>>

\* line 226, and the print of line 229
DiffNameOnly ==
    /\ pc = "diff_name_only"
    /\ cmds' = Append(cmds, Cmd("diff-name-only", head, <<m_commit_hash, n_commit_hash>>))
    /\ stdout' = stdout \o DiffNamesOutput(m_commit_hash, n_commit_hash)
                         \o <<Text(""), [kind |-> "differences", m |-> arg_m, n |-> arg_n]>>
    /\ pc' = "diff_patch"
    /\ UNCHANGED <<treeVars, countVars, repoVars, head, argv, arg_n, detached,
                   commit_hash, diffVars, exit, runs>>

\* line 230, after which the process ends with main's return
DiffPatch ==
    /\ pc = "diff_patch"
    /\ cmds' = Append(cmds, Cmd("diff", head, <<m_commit_hash, n_commit_hash>>))
    /\ stdout' = stdout \o DiffOutput(m_commit_hash, n_commit_hash)
    /\ exit' = 0
    /\ pc' = "idle"
    /\ UNCHANGED <<treeVars, countVars, repoVars, head, argv, arg_n, detached,
                   commit_hash, diffVars, runs>>

-----------------------------------------------------------------------------
(* gitpro(n) *)

\* lines 142-149
GitproIsDetached ==
    /\ pc = "gitpro"
    /\ Issue("symbolic-ref")
    /\ detached' = IsDetachedHead
    /\ IF IsDetachedHead
       THEN /\ stdout' = stdout \o <<Text("Currently in detached HEAD state."),
                                     Text("Checking out to master branch first...")>>
            /\ pc' = "gitpro_checkout_main"
       ELSE /\ stdout' = Append(stdout, [kind |-> "branch", branch |-> head.branch])
            /\ pc' = "gitpro_lookup"
    /\ UNCHANGED <<treeVars, countVars, repoVars, head, argv, arg_n, commit_hash,
                   diffVars, exit, runs>>

\* line 147: the result of the checkout is not looked at
GitproCheckoutMain ==
    /\ pc = "gitpro_checkout_main"
    /\ Issue("checkout-main")
    /\ IF CheckoutSucceeds(TipOf(MAIN_BRANCH_NAME))
       THEN /\ head' = [branch |-> MAIN_BRANCH_NAME, at |-> TipOf(MAIN_BRANCH_NAME)]
            /\ stdout' = stdout \o CheckoutOutput
       ELSE UNCHANGED <<head, stdout>>
    /\ pc' = "gitpro_lookup"
    /\ UNCHANGED <<treeVars, countVars, repoVars, argv, arg_n, detached, commit_hash,
                   diffVars, exit, runs>>

\* line 152, and lines 156-158 when the index is out of range
GitproLookup ==
    /\ pc = "gitpro_lookup"
    /\ Issue("log-hashes")
    /\ LET found == PyIndex(LogHashes, 0 - arg_n)
       IN  IF found.ok
           THEN /\ commit_hash' = found.value
                /\ pc' = "gitpro_checkout"
                /\ UNCHANGED <<stdout, exit>>
           ELSE /\ stdout' = Append(stdout, Text("Commit not found."))
                /\ exit' = 1
                /\ pc' = "idle"
                /\ UNCHANGED commit_hash
    /\ UNCHANGED <<treeVars, countVars, repoVars, head, argv, arg_n, detached, diffVars,
                   runs>>

\* line 155, after which the process ends with main's return, whether the
\* checkout succeeded or not
GitproCheckout ==
    /\ pc = "gitpro_checkout"
    /\ Issue("checkout-commit")
    /\ LET k == CHOOSE j \in 1..Len(commits) : commits[j].hash = commit_hash
       IN  IF CheckoutSucceeds(k)
           THEN /\ head' = [branch |-> "", at |-> k]
                /\ stdout' = stdout \o CheckoutOutput
           ELSE UNCHANGED <<head, stdout>>
    /\ exit' = 0
    /\ pc' = "idle"
    /\ UNCHANGED <<treeVars, countVars, repoVars, argv, arg_n, detached, commit_hash,
                   diffVars, runs>>

-----------------------------------------------------------------------------
(* search_commit_message(search_key) *)

\* lines 256-263
SearchIsDetached ==
    /\ pc = "search"
    /\ Issue("symbolic-ref")
    /\ detached' = IsDetachedHead
    /\ IF IsDetachedHead
       THEN /\ stdout' = stdout \o <<Text("Currently in detached HEAD state."),
                                     Text("Checking out to master branch first...")>>
            /\ pc' = "search_checkout_main"
       ELSE /\ stdout' = Append(stdout, [kind |-> "branch", branch |-> head.branch])
            /\ pc' = "search_log"
    /\ UNCHANGED <<treeVars, countVars, repoVars, head, argv, arg_n, commit_hash,
                   diffVars, exit, runs>>

\* line 261: the result of the checkout is not looked at
SearchCheckoutMain ==
    /\ pc = "search_checkout_main"
    /\ Issue("checkout-main")
    /\ IF CheckoutSucceeds(TipOf(MAIN_BRANCH_NAME))
       THEN /\ head' = [branch |-> MAIN_BRANCH_NAME, at |-> TipOf(MAIN_BRANCH_NAME)]
            /\ stdout' = stdout \o CheckoutOutput
       ELSE UNCHANGED <<head, stdout>>
    /\ pc' = "search_log"
    /\ UNCHANGED <<treeVars, countVars, repoVars, argv, arg_n, detached, commit_hash,
                   diffVars, exit, runs>>

\* lines 266-271, from list index i on (i counts from 0, as enumerate does)
RECURSIVE SearchFrom(_, _, _)
SearchFrom(lines, i, search_key) ==
    IF i >= Len(lines) THEN <<>>
    ELSE LET commit_parts   == SplitOnce(lines[i + 1])
             hash           == commit_parts[1]
             commit_message == commit_parts[2]
         IN  (IF Contains(ToLower(commit_message), ToLower(search_key))
              THEN <<[kind |-> "match", number |-> i + 1, hash |-> hash,
                      message |-> commit_message]>>
              ELSE <<>>)
             \o SearchFrom(lines, i + 1, search_key)

\* lines 265-271, after which the process ends
SearchPrint ==
    /\ pc = "search_log"
    /\ Issue("log-oneline")
    /\ stdout' = stdout \o SearchFrom(LogOneLine, 0, argv[2])
    /\ exit' = 0
    /\ pc' = "idle"
    /\ UNCHANGED <<treeVars, countVars, repoVars, head, argv, arg_n, detached,
                   commit_hash, diffVars, runs>>

-----------------------------------------------------------------------------
(* The repository commands, run one after the other in one repository *)

InitGit ==
    /\ commits \in Histories
    /\ devTip \in 1..Len(commits)
    /\ head \in {[branch |-> b, at |-> TipOf(b)] : b \in {MAIN_BRANCH_NAME, "dev"}}
    /\ worktree \in WorkTrees
    /\ argv = <<>>
    /\ arg_n = 0
    /\ detached = FALSE
    /\ commit_hash = <<>>
    /\ arg_m = 0
    /\ m_commit_hash = <<>>
    /\ n_commit_hash = <<>>
    /\ cmds = <<>>
    /\ exit = -1
    /\ runs = 0
    /\ pc = "idle"
    /\ dirs = {}
    /\ files = {}
    /\ content = <<>>
    /\ gitignore = NoIgnoreFile
    /\ lineNo = 1
    /\ exclude_patterns = <<>>
    /\ stack = <<>>
    /\ root = TOP
    /\ pending = {}
    /\ lines_by_file = <<>>
    /\ stdout = <<>>

NextGit ==
    \/ Invoke
    \/ ResetStatus \/ ResetHard \/ ResetCheckoutMain
    \/ ListCommits
    \/ DiffLookupM \/ DiffLookupN \/ DiffNameOnly \/ DiffPatch
    \/ GitproIsDetached \/ GitproCheckoutMain \/ GitproLookup \/ GitproCheckout
    \/ SearchIsDetached \/ SearchCheckoutMain \/ SearchPrint

SpecGit == InitGit /\ [][NextGit]_vars

-----------------------------------------------------------------------------
(* Properties of gitpro and search_commit_message *)

\* a gitpro process has ended
GitproEnded ==
    /\ pc = "idle"
    /\ cmds # <<>>
    /\ cmds[1].cmd = "symbolic-ref"
    /\ \E i \in 1..Len(cmds) : cmds[i].cmd = "log-hashes"

\* a search process has run to its end
SearchEnded == pc = "idle" /\ runs > 0 /\ Len(argv) = 2 /\ argv[1] = W_search

\* the n the gitpro process was called with
Ordinal == arg_n

\* the number of commits of the history gitpro looked the hash up in
SeenCommits == (CHOOSE c \in Range(cmds) : c.cmd = "log-hashes").head.at

\* C8: gitpro(n) checks out the n-th commit from the initial one when there is
\* one, and for every other n prints "Commit not found.", exits with status 1
\* and checks out no commit.
C8_NthCommitOrNotFound ==
    GitproEnded =>
        IF 1 <= Ordinal /\ Ordinal <= SeenCommits
        THEN exit = 0 /\ head = [branch |-> "", at |-> Ordinal]
        ELSE /\ exit = 1
             /\ Text("Commit not found.") \in Range(stdout)
             /\ \A c \in Range(cmds) : c.cmd # "checkout-commit"

Matches == {stdout[i] : i \in {j \in 1..Len(stdout) : stdout[j].kind = "match"}}

\* C9: search_commit_message prints exactly the commits whose message holds the
\* key, whatever the case of the letters, each with its number counted from the
\* initial commit, the n that gitpro(n) takes.
C9_SearchNumbersFromInitial ==
    SearchEnded =>
        {<<m.number, m.hash, m.message>> : m \in Matches}
            = {<<k, Abbrev(commits[k].hash), commits[k].msg>> :
                  k \in {j \in 1..head.at :
                            Contains(ToLower(commits[j].msg), ToLower(argv[2]))}}

\* C10: gitpro in detached HEAD state checks main out before it looks the hash
\* up, so that every n from 1 to the number of commits of main is found and
\* checked out; on a branch it checks nothing out before the lookup.
C10_MainCheckedOutBeforeLookup ==
    /\ \A i \in 1..Len(cmds) :
           (cmds[1].cmd = "symbolic-ref" /\ cmds[i].cmd = "log-hashes") =>
               IF cmds[1].head.branch = ""
               THEN /\ \E j \in 1..(i - 1) : cmds[j].cmd = "checkout-main"
                    /\ cmds[i].head = [branch |-> "main", at |-> Len(commits)]
               ELSE /\ \A j \in 1..(i - 1) : cmds[j].cmd = "symbolic-ref"
                    /\ cmds[i].head = cmds[1].head
    /\ (GitproEnded /\ cmds[1].head.branch = "" /\ 1 <= Ordinal /\ Ordinal <= Len(commits))
           => (exit = 0 /\ head = [branch |-> "", at |-> Ordinal])

====
